---- MODULE Spec2Model ----
(***************************************************************************)
(* Model of ced2gnn: the two entry scripts (src/ced2graph.py, src/main.py) *)
(* and the Mya sampler (src/modules/mya.py).                               *)
(*                                                                         *)
(* Four specifications share the module:                                   *)
(*   Spec         one run of an entry script, from the command line to     *)
(*                its exit;                                                *)
(*   SpecSampler  the Sampler class: its constructor, queryParams() and    *)
(*                the static steps_between(), on date strings drawn from   *)
(*                a bounded set of November 2021 dates;                    *)
(*   SpecData     the Sampler's set_data() and data(), on lists of up to   *)
(*                MaxRows rows;                                            *)
(*   SpecLinks    populate_links on every list of roles up to MaxNodes.    *)
(*                                                                         *)
(* modules/node.py, modules/ced.py and the multi-window interface of       *)
(* modules/mya.py that the scripts call are not part of the sources at     *)
(* hand; populate_links, make_node's result, from_json and the walk over   *)
(* the windows follow the design document.                                 *)
(*                                                                         *)
(* Strings are sequences of character codes, so that Python's string       *)
(* comparison and pandas' date parsing are computed, not assumed.          *)
(* Timestamps are minutes of wall-clock time since 2021-11-01 00:00.       *)
(***************************************************************************)
EXTENDS Integers, Sequences, FiniteSets, TLC

VARIABLES
    \* -- the Sampler under test (SpecSampler)
    s_begin, s_end, s_interval, \* the arguments: two dates as written, an interval
    sampler,                    \* the constructed object, or NoSampler
    s_raised,                   \* Sampler.__init__ raised RuntimeError
    s_params,                   \* what queryParams() returned, or NoParams
    s_fwd, s_rev,               \* steps_between(begin, end), steps_between(end, begin); -1: not called
    \* -- the Sampler's data (SpecData)
    s_pv_list,                  \* the argument pv_list, kept as self.pv_list
    s_data,                     \* self._data: None, or a list
    s_set,                      \* the list the last set_data() stored, if one did
    s_http,                     \* requests.get calls issued by data()
    s_out,                      \* the last call of set_data() or data(), and how it ended
    s_calls,                    \* calls of set_data() and data() so far
    \* -- a node list on its own (SpecLinks)
    l_nodes, l_runs,            \* the list, and how often populate_links ran on it
    \* -- one run of an entry script (Spec)
    script,                     \* "ced2graph" or "main"
    read_json,                  \* args.read_json
    default_dir,                \* args.output_dir == '.'
    writable,                   \* what os.access(output_dir, X_OK | W_OK) answers
    windows,                    \* the configured sampling windows, [begin, end] dates as written
    pc,                         \* index of the next step in Program(script, read_json)
    status, cause,              \* "running", "exit0", "exit1", "crash"; and why
    dir_created,                \* os.makedirs made the output directory
    checked,                    \* the writability test has run
    elements,                   \* inventory.elements()
    next_elem,                  \* the for loop's position in elements
    fetched,                    \* per element the loop has taken: "no_node", or what pv_data() did
    node_id,                    \* the loop's counter
    node_list,                  \* the node list
    windows_done,               \* windows whose Sampler was constructed
    n_inventory, n_global, n_node_fetch, \* fetches issued
    n_links, n_writes           \* calls of populate_links, write_data_sets

data_vars == <<s_pv_list, s_data, s_set, s_http, s_out, s_calls>>
sampler_vars == <<s_begin, s_end, s_interval, sampler, s_raised, s_params, s_fwd, s_rev, data_vars>>
links_vars == <<l_nodes, l_runs>>
run_inputs == <<script, read_json, default_dir, writable, windows>>
run_vars == <<script, read_json, default_dir, writable, windows, pc, status, cause,
              dir_created, checked, elements, next_elem, fetched, node_id, node_list,
              windows_done, n_inventory, n_global, n_node_fetch, n_links, n_writes>>
vars == <<sampler_vars, links_vars, run_vars>>

\* ------------------------------------------------------------------ bounds

\* Last day of November 2021 the date strings reach (the first is the 6th).
MaxDay == 10
\* Last half-hour slot of the day the date strings reach (slot 4 is 02:00).
MaxSlot == 4
\* Largest count of an interval string such as '2h'.
MaxIntervalN == 2
\* Longest inventory (sequence of elements) a run fetches.
MaxElems == 4
\* Most sampling windows a run's configuration holds.
MaxWindows == 2
\* Longest node list populate_links is applied to on its own.
MaxNodes == 6
\* Most calls of populate_links on one list.
MaxLinkRuns == 2
\* Longest list given to set_data() or sent back by the archiver.
MaxRows == 2
\* Most calls of set_data() and data() on one Sampler.
MaxCalls == 3

\* --------------------------------------------------------- date strings

Abs(x) == IF x < 0 THEN -x ELSE x

Digit(n) == 48 + n
Pad2(n) == <<Digit(n \div 10), Digit(n % 10)>>
NoPad(n) == IF n < 10 THEN <<Digit(n)>> ELSE Pad2(n)

\* "2021-11-"
YearMonth == <<50, 48, 50, 49, 45, 49, 49, 45>>

\* " hh:mm:00" for a half-hour slot of the day
TimeOfSlot(slot) == <<32>> \o Pad2(slot \div 2) \o <<58>> \o Pad2(30 * (slot % 2))
                        \o <<58, 48, 48>>

\* The ways a caller may write one date: the documented 'yyyy-mm-dd hh:mm:ss',
\* the same with an unpadded day, and the date alone (midnight).
DateStr(day, slot, fmt) ==
    CASE fmt = "full"       -> YearMonth \o Pad2(day) \o TimeOfSlot(slot)
      [] fmt = "nopad"      -> YearMonth \o NoPad(day) \o TimeOfSlot(slot)
      [] fmt = "date"       -> YearMonth \o Pad2(day)
      [] fmt = "date_nopad" -> YearMonth \o NoPad(day)

\* Wall-clock minutes since 2021-11-01 00:00
WallMinutes(day, slot) == ((day - 1) * 24) * 60 + slot * 30

\* America/New_York left daylight saving time on 2021-11-07 at 02:00 local.
DstEndWall == WallMinutes(7, 4)

\* Wall-clock times that occur twice on 2021-11-07 (01:00 to 01:59).
Ambiguous(wall) == wall >= DstEndWall - 60 /\ wall < DstEndWall

\* The (day, slot) pairs of the dates drawn, from 2021-11-06 on. Wall times
\* that are ambiguous in America/New_York are left out.
DateParts ==
    { p \in (6..MaxDay) \X (0..MaxSlot) : ~Ambiguous(WallMinutes(p[1], p[2])) }

\* The dates the model draws arguments from, each with the way it is written.
DateArgs ==
    { [day |-> p[1], slot |-> p[2], fmt |-> f] : p \in DateParts, f \in {"full", "nopad"} }
    \cup { [day |-> d, slot |-> 0, fmt |-> f] : d \in 6..MaxDay, f \in {"date", "date_nopad"} }

\* The date string of an argument
Str(a) == DateStr(a.day, a.slot, a.fmt)

\* Interval strings: <<n, unit>> stands for '<n><unit>', e.g. <<1, "h">> is '1h'.
Intervals == (1..MaxIntervalN) \X {"min", "h", "d"}

\* ---------------------------------------------------------------- pandas

IsDigit(c) == c >= 48 /\ c <= 57

\* The runs of digits of a string, as numbers, in order.
RECURSIVE SplitFields(_, _, _)
SplitFields(s, cur, acc) ==
    IF s = <<>>
    THEN IF cur >= 0 THEN Append(acc, cur) ELSE acc
    ELSE IF IsDigit(Head(s))
         THEN SplitFields(Tail(s), (IF cur < 0 THEN 0 ELSE cur) * 10 + (Head(s) - 48), acc)
         ELSE SplitFields(Tail(s), -1, IF cur >= 0 THEN Append(acc, cur) ELSE acc)

\* pandas.to_datetime on a date string of November 2021: year, month, day and,
\* when present, hour, minute, second (absent fields are 0).
to_datetime(s) ==
    LET f == SplitFields(s, -1, <<>>)
        field(i) == IF i <= Len(f) THEN f[i] ELSE 0
    IN  ((field(3) - 1) * 24 + field(4)) * 60 + field(5)

\* pandas.to_timedelta on an interval string, in minutes.
to_timedelta(interval) ==
    interval[1] * (CASE interval[2] = "min" -> 1
                     [] interval[2] = "h"   -> 60
                     [] interval[2] = "d"   -> 24 * 60)

\* pandas.Timestamp(ts, tzinfo=tz): the wall time taken as America/New_York
\* time, as minutes of UTC (EDT is UTC-4, EST is UTC-5).
Localize(wall) == IF wall < DstEndWall THEN wall + 4 * 60 ELSE wall + 5 * 60

\* Python's < on str: by code point, a proper prefix is smaller.
RECURSIVE StrLess(_, _)
StrLess(a, b) ==
    IF b = <<>> THEN FALSE
    ELSE IF a = <<>> THEN TRUE
    ELSE IF Head(a) # Head(b) THEN Head(a) < Head(b)
    ELSE StrLess(Tail(a), Tail(b))

\* datetime.strftime(ts, '%Y-%m-%d %X')
strftime(ts) ==
    YearMonth \o Pad2(ts \div (24 * 60) + 1) \o <<32>> \o Pad2((ts % (24 * 60)) \div 60)
        \o <<58>> \o Pad2(ts % 60) \o <<58, 48, 48>>

\* ---------------------------------------------------------------- Sampler

\* Sampler.steps_between without the abs(): a negative span floors downwards.
steps_between_NoAbs(begin_date, end_date, interval) ==
    (Localize(end_date) - Localize(begin_date)) \div to_timedelta(interval)

\* Sampler.steps_between(begin_date, end_date, interval), on parsed dates.
steps_between(begin_date, end_date, interval) ==
    LET begin_datetime == Localize(begin_date)
        end_datetime == Localize(end_date)
        time_difference == Abs(end_datetime - begin_datetime)
    IN  time_difference \div to_timedelta(interval)

\* The test of Sampler.__init__ that raises RuntimeError("End date must be
\* after Begin date"): begin_date >= end_date on the ARGUMENTS, which are str.
InitRaises(begin_date, end_date) == ~StrLess(begin_date, end_date)

NoSampler == [constructed |-> FALSE]

\* The object Sampler.__init__ leaves behind when it does not raise.
NewSampler(begin_date, end_date, interval) ==
    [constructed |-> TRUE,
     begin_date  |-> to_datetime(begin_date),
     end_date    |-> to_datetime(end_date),
     interval    |-> interval]

\* Sampler.number_of_steps
number_of_steps(self) == steps_between(self.begin_date, self.end_date, self.interval)

\* Sampler.queryParams (the channel list plays no part here)
queryParams(self) ==
    [b |-> strftime(self.begin_date),
     s |-> self.interval,
     n |-> number_of_steps(self),
     m |-> "ops"]

NoParams == [n |-> -1]

\* ------------------------------------------------- SpecSampler: the actions

SamplerArgs ==
    /\ s_begin \in DateArgs
    /\ s_end \in DateArgs
    /\ s_interval \in Intervals

\* self._data as __init__ sets it: None.
NoneData == [is_none |-> TRUE, val |-> <<>>]

\* No set_data() has stored a list yet.
NoSet == [is_set |-> FALSE, val |-> <<>>]

\* No call of set_data() or data() yet.
NoCall == [op |-> "none", arg |-> "none", raised |-> "none", ret |-> <<>>]

\* Nothing has touched the Sampler's data.
DataIdle ==
    /\ s_data = NoneData
    /\ s_set = NoSet
    /\ s_http = 0
    /\ s_out = NoCall
    /\ s_calls = 0

SamplerIdle ==
    /\ sampler = NoSampler
    /\ s_raised = FALSE
    /\ s_params = NoParams
    /\ s_fwd = -1
    /\ s_rev = -1
    /\ s_pv_list = <<>>
    /\ DataIdle

\* Sampler(begin_date, end_date, interval, pv_list): the attributes are set
\* (self.pv_list is s_pv_list, self._data is None), then the
\* test raises, and no object comes back, or it does not.
Construct ==
    /\ sampler = NoSampler
    /\ ~s_raised
    /\ IF InitRaises(Str(s_begin), Str(s_end))
       THEN s_raised' = TRUE /\ sampler' = sampler
       ELSE s_raised' = FALSE /\ sampler' = NewSampler(Str(s_begin), Str(s_end), s_interval)
    /\ UNCHANGED <<links_vars, run_vars>>
    /\ s_data' = NoneData
    /\ UNCHANGED <<s_begin, s_end, s_interval, s_params, s_fwd, s_rev>>
    /\ UNCHANGED <<s_pv_list, s_set, s_http, s_out, s_calls>>

\* sampler.queryParams()
QueryParams ==
    /\ sampler.constructed
    /\ s_params = NoParams
    /\ s_params' = queryParams(sampler)
    /\ UNCHANGED <<links_vars, run_vars>>
    /\ UNCHANGED <<s_begin, s_end, s_interval, sampler, s_raised, s_fwd, s_rev>>
    /\ UNCHANGED data_vars

\* Sampler.steps_between(begin, end, interval), the static method, on the
\* date strings (it parses them itself).
StepsForward ==
    /\ s_fwd = -1
    /\ s_fwd' = steps_between(to_datetime(Str(s_begin)), to_datetime(Str(s_end)), s_interval)
    /\ UNCHANGED <<links_vars, run_vars>>
    /\ UNCHANGED <<s_begin, s_end, s_interval, sampler, s_raised, s_params, s_rev>>
    /\ UNCHANGED data_vars

\* Sampler.steps_between(end, begin, interval)
StepsBackward ==
    /\ s_rev = -1
    /\ s_rev' = steps_between(to_datetime(Str(s_end)), to_datetime(Str(s_begin)), s_interval)
    /\ UNCHANGED <<links_vars, run_vars>>
    /\ UNCHANGED <<s_begin, s_end, s_interval, sampler, s_raised, s_params, s_fwd>>
    /\ UNCHANGED data_vars

\* ------------------------------------------------------------- node lists

Roles == {"setpoint", "observer"}

\* A node: its node_id, the place of its element in the inventory, its role,
\* and (for a setpoint) the list positions of its downstream nodes.
Node(id, elem, role) == [node_id |-> id, elem |-> elem, role |-> role, downstream |-> <<>>]

\* node.List.populate_links without the reset of a setpoint's downstream list.
RECURSIVE link_scan_NoReset(_, _, _)
link_scan_NoReset(nodes, i, current) ==
    IF i > Len(nodes) THEN nodes
    ELSE LET linked == IF current # 0
                       THEN [nodes EXCEPT ![current].downstream = Append(@, i)]
                       ELSE nodes
         IN  IF nodes[i].role = "setpoint"
             THEN link_scan_NoReset(linked, i + 1, i)
             ELSE link_scan_NoReset(linked, i + 1, current)

populate_links_NoReset(nodes) == link_scan_NoReset(nodes, 1, 0)

\* node.List.populate_links that closes a setpoint without the next setpoint.
RECURSIVE link_scan_Exclusive(_, _, _)
link_scan_Exclusive(nodes, i, current) ==
    IF i > Len(nodes) THEN nodes
    ELSE IF nodes[i].role = "setpoint"
         THEN link_scan_Exclusive([nodes EXCEPT ![i].downstream = <<>>], i + 1, i)
         ELSE link_scan_Exclusive(
                  IF current # 0
                  THEN [nodes EXCEPT ![current].downstream = Append(@, i)]
                  ELSE nodes,
                  i + 1, current)

populate_links_Exclusive(nodes) == link_scan_Exclusive(nodes, 1, 0)

\* The scan of populate_links from position i on, with the current setpoint
\* (0: none). A setpoint closes the current one, which takes it as its last
\* downstream member, becomes current and has its downstream list reset; any
\* other node joins the current setpoint's downstream list.
RECURSIVE link_scan(_, _, _)
link_scan(nodes, i, current) ==
    IF i > Len(nodes) THEN nodes
    ELSE LET linked == IF current # 0
                       THEN [nodes EXCEPT ![current].downstream = Append(@, i)]
                       ELSE nodes
         IN  IF nodes[i].role = "setpoint"
             THEN link_scan([linked EXCEPT ![i].downstream = <<>>], i + 1, i)
             ELSE link_scan(linked, i + 1, current)

\* node.List.populate_links(node_list)
populate_links(nodes) == link_scan(nodes, 1, 0)

\* All sequences over S of length lo..hi
SeqsOf(S, lo, hi) == UNION { [1..n -> S] : n \in lo..hi }

\* ------------------------------------------- SpecData: set_data() and data()

\* The channel lists a Sampler is made with; [] is the default.
PvLists == {<<>>, <<"MQB0L09.BDL">>, <<"MQB0L09.BDL", "MQB0L10.BDL">>}

\* What a caller hands to set_data(): a list of rows read from a file, or a
\* value that is not a list.
SetDataArgs ==
    [type : {"list"}, val : SeqsOf({"file"}, 0, MaxRows)]
        \cup [type : {"dict", "str", "NoneType"}, val : {<<>>}]

\* What requests.get does: an answer with status 200, an answer with another
\* status, or no answer (requests raises).
HttpOutcomes == {"ok", "error_status", "ConnectionError"}

\* response.json()['data']: the rows the archiver sends.
ResponseLists == SeqsOf({"mya"}, 0, MaxRows)

\* Python's `not self._data`: true of None and of the empty list.
not_data(d) == d.is_none \/ d.val = <<>>

\* How a call is recorded in s_out.
Call(op, arg, raised, ret) == [op |-> op, arg |-> arg, raised |-> raised, ret |-> ret]

\* sampler.set_data(val)
SetData ==
    /\ sampler.constructed
    /\ s_calls < MaxCalls
    /\ \E val \in SetDataArgs :
          IF val.type # "list"
          THEN /\ s_out' = Call("set_data", val.type, "TypeError", <<>>)
               /\ UNCHANGED <<s_data, s_set>>
          ELSE /\ s_data' = [is_none |-> FALSE, val |-> val.val]
               /\ s_set' = [is_set |-> TRUE, val |-> val.val]
               /\ s_out' = Call("set_data", "list", "none", <<>>)
    /\ s_calls' = s_calls + 1
    /\ UNCHANGED <<s_pv_list, s_http>>
    /\ UNCHANGED <<s_begin, s_end, s_interval, sampler, s_raised, s_params, s_fwd, s_rev>>
    /\ UNCHANGED <<links_vars, run_vars>>

\* sampler.data(): the stored list when `self._data` is true; otherwise a
\* request to the archiver, which needs channels, and whose rows are stored.
Data ==
    /\ sampler.constructed
    /\ s_calls < MaxCalls
    /\ IF ~not_data(s_data)
       THEN /\ s_out' = Call("data", "none", "none", s_data.val)
            /\ UNCHANGED <<s_data, s_http>>
       ELSE IF s_pv_list = <<>>
       THEN /\ s_out' = Call("data", "none", "No channels to fetch", <<>>)
            /\ UNCHANGED <<s_data, s_http>>
       ELSE /\ s_http' = s_http + 1
            /\ \E outcome \in HttpOutcomes :
                  IF outcome = "ok"
                  THEN \E rows \in ResponseLists :
                          /\ s_data' = [is_none |-> FALSE, val |-> rows]
                          /\ s_out' = Call("data", "none", "none", rows)
                  ELSE /\ s_out' = Call("data", "none", outcome, <<>>)
                       /\ UNCHANGED s_data
    /\ s_calls' = s_calls + 1
    /\ UNCHANGED <<s_pv_list, s_set>>
    /\ UNCHANGED <<s_begin, s_end, s_interval, sampler, s_raised, s_params, s_fwd, s_rev>>
    /\ UNCHANGED <<links_vars, run_vars>>

\* ---------------------------------------------------- SpecLinks: the actions

\* A list of nodes as node construction leaves it: ids by position, nothing
\* linked yet.
FreshList(roles) == [i \in 1..Len(roles) |-> Node(i - 1, i, roles[i])]

LinksIdle ==
    /\ l_nodes = <<>>
    /\ l_runs = 0

\* node.List.populate_links(l_nodes)
LinkCall ==
    /\ l_runs < MaxLinkRuns
    /\ l_nodes' = populate_links(l_nodes)
    /\ l_runs' = l_runs + 1
    /\ UNCHANGED <<sampler_vars, run_vars>>

\* --------------------------------------------------------------- the run

\* An inventory element as the run sees it: the role its type rule gives it
\* ("none": no rule matches, make_node returns nothing).
ElementTypes == {"none"} \cup Roles

\* What pv_data() does for a node: it returns, it raises MyaException (the
\* error the loop catches), or it raises the RuntimeError of Sampler.data.
FetchOutcomes == {"ok", "MyaException", "RuntimeError"}

Inventories == SeqsOf(ElementTypes, 0, MaxElems)

\* The two dates a run's windows are written with.
RunDates == { [day |-> 10, slot |-> 0, fmt |-> "full"], [day |-> 10, slot |-> 4, fmt |-> "full"] }

RunWindows == [begin : RunDates, end : RunDates]

\* The steps of a run, in the order the script performs them.
\* (Program with the writability test moved behind the first fetches.)
Program_FetchBeforeCheck(s, json) ==
    CASE s = "ced2graph" /\ json ->
            <<"makedirs", "access", "from_json",
              "empty_check", "populate_links", "write_data_sets", "finish">>
      [] s = "ced2graph" /\ ~json ->
            <<"makedirs", "inventory", "global", "access", "nodes", "populate_links",
              "empty_check", "populate_links", "write_data_sets", "finish">>
      [] s = "main" /\ json ->
            <<"access", "from_json",
              "empty_check", "populate_links", "write_data_sets", "finish">>
      [] s = "main" /\ ~json ->
            <<"global", "inventory", "access", "nodes", "populate_links", "write_data_sets",
              "empty_check", "populate_links", "write_data_sets", "finish">>

\* ced2graph.py lines 93-222 and main.py lines 68-173, step by step.

Program(s, json) ==
    CASE s = "ced2graph" /\ json ->
            <<"makedirs", "access", "from_json",
              "empty_check", "populate_links", "write_data_sets", "finish">>
      [] s = "ced2graph" /\ ~json ->
            <<"makedirs", "access", "inventory", "global", "nodes", "populate_links",
              "empty_check", "populate_links", "write_data_sets", "finish">>
      [] s = "main" /\ json ->
            <<"access", "from_json",
              "empty_check", "populate_links", "write_data_sets", "finish">>
      [] s = "main" /\ ~json ->
            <<"access", "global", "inventory", "nodes", "populate_links", "write_data_sets",
              "empty_check", "populate_links", "write_data_sets", "finish">>

Running == status = "running"

\* The step the run is at
Step == IF Running /\ pc <= Len(Program(script, read_json))
        THEN Program(script, read_json)[pc] ELSE "none"

\* The first position of a step in the run's program (0: not in it)
StepIndex(name) ==
    LET P == Program(script, read_json)
        at == { i \in 1..Len(P) : P[i] = name }
    IN  IF at = {} THEN 0 ELSE CHOOSE i \in at : \A j \in at : i <= j

Advance == pc' = pc + 1 /\ UNCHANGED <<status, cause>>

Stay == UNCHANGED <<pc, status, cause>>

\* An exception nothing catches, sys.exit, or the except clauses' exit(1)
Stop(st, why) == status' = st /\ cause' = why /\ UNCHANGED pc

\* The command line and configuration of a run, and the state the script
\* starts in. A directory the script has just made itself is writable.
RunInit ==
    /\ script \in {"ced2graph", "main"}
    /\ read_json \in BOOLEAN
    /\ default_dir \in (IF script = "ced2graph" THEN BOOLEAN ELSE {FALSE})
    /\ writable \in (IF default_dir THEN {TRUE} ELSE BOOLEAN)
    /\ windows \in SeqsOf(RunWindows, 1, MaxWindows)
    /\ pc = 1
    /\ status = "running"
    /\ cause = "none"
    /\ dir_created = FALSE
    /\ checked = FALSE
    /\ elements = <<>>
    /\ next_elem = 1
    /\ fetched = <<>>
    /\ node_id = 0
    /\ node_list = <<>>
    /\ windows_done = 0
    /\ n_inventory = 0
    /\ n_global = 0
    /\ n_node_fetch = 0
    /\ n_links = 0
    /\ n_writes = 0

\* No run (the state of the run variables under SpecSampler and SpecLinks)
RunIdle ==
    /\ script = "main"
    /\ read_json = FALSE
    /\ default_dir = FALSE
    /\ writable = TRUE
    /\ windows = <<>>
    /\ pc = 1
    /\ status = "exit0"
    /\ cause = "none"
    /\ dir_created = FALSE
    /\ checked = FALSE
    /\ elements = <<>>
    /\ next_elem = 1
    /\ fetched = <<>>
    /\ node_id = 0
    /\ node_list = <<>>
    /\ windows_done = 0
    /\ n_inventory = 0
    /\ n_global = 0
    /\ n_node_fetch = 0
    /\ n_links = 0
    /\ n_writes = 0

\* ced2graph.py: with the default '.', a dated sub-directory is made, which
\* raises OSError (caught by nothing) when it cannot be.
MakeOutputDir ==
    /\ Step = "makedirs"
    /\ IF default_dir
       THEN \E made \in BOOLEAN :
               IF made
               THEN dir_created' = TRUE /\ Advance
               ELSE dir_created' = dir_created /\ Stop("crash", "makedirs")
       ELSE dir_created' = dir_created /\ Advance
    /\ UNCHANGED <<sampler_vars, links_vars>>
    /\ UNCHANGED <<run_inputs, checked, elements, next_elem, fetched, node_id, node_list,
                   windows_done, n_inventory, n_global, n_node_fetch, n_links, n_writes>>

\* "Before doing any time-consuming work, verify the output dir is writable":
\* sys.exit(message) raises SystemExit, which no except clause of the script
\* catches; the process ends with status 1.
CheckWritable ==
    /\ Step = "access"
    /\ checked' = TRUE
    /\ IF writable THEN Advance ELSE Stop("exit1", "unwritable")
    /\ UNCHANGED <<sampler_vars, links_vars>>
    /\ UNCHANGED <<run_inputs, dir_created, elements, next_elem, fetched, node_id, node_list,
                   windows_done, n_inventory, n_global, n_node_fetch, n_links, n_writes>>

\* --read-json: the tree, the global data and the node list come from files.
ReadJson ==
    /\ Step = "from_json"
    /\ \E roles \in SeqsOf(Roles, 0, MaxElems) : node_list' = FreshList(roles)
    /\ Advance
    /\ UNCHANGED <<sampler_vars, links_vars>>
    /\ UNCHANGED <<run_inputs, dir_created, checked, elements, next_elem, fetched, node_id,
                   windows_done, n_inventory, n_global, n_node_fetch, n_links, n_writes>>

\* Inventory(...).elements()
InventoryFetch ==
    /\ Step = "inventory"
    /\ elements' \in Inventories
    /\ n_inventory' = n_inventory + 1
    /\ Advance
    /\ UNCHANGED <<sampler_vars, links_vars>>
    /\ UNCHANGED <<run_inputs, dir_created, checked, next_elem, fetched, node_id, node_list,
                   windows_done, n_global, n_node_fetch, n_links, n_writes>>

\* The windows Sampler.__init__ rejects
BadWindows == { i \in 1..Len(windows) : InitRaises(Str(windows[i].begin), Str(windows[i].end)) }

\* GlobalFetch that skips a window its Sampler rejects, and goes on.
GlobalFetch_SkipsBadWindow ==
    /\ Step = "global"
    /\ windows_done' = Len(windows) - Cardinality(BadWindows)
    /\ n_global' = n_global + 1
    /\ \E http_ok \in BOOLEAN :
          IF http_ok THEN Advance ELSE Stop("exit1", "global_fetch")
    /\ UNCHANGED <<sampler_vars, links_vars>>
    /\ UNCHANGED <<run_inputs, dir_created, checked, elements, next_elem, fetched, node_id,
                   node_list, n_inventory, n_node_fetch, n_links, n_writes>>

\* dates = mya.date_ranges(config); global_data = mya.Sampler(dates, ...).data():
\* a Sampler per window, in order. The RuntimeError of Sampler.__init__ for a
\* window, or of Sampler.data for a non-success status, reaches the script's
\* `except RuntimeError`, which prints it and exits with status 1.
GlobalFetch ==
    /\ Step = "global"
    /\ IF BadWindows # {}
       THEN /\ windows_done' = (CHOOSE i \in BadWindows : \A j \in BadWindows : i <= j) - 1
            /\ n_global' = n_global
            /\ Stop("exit1", "window")
       ELSE /\ windows_done' = Len(windows)
            /\ n_global' = n_global + 1
            /\ \E http_ok \in BOOLEAN :
                  IF http_ok THEN Advance ELSE Stop("exit1", "global_fetch")
    /\ UNCHANGED <<sampler_vars, links_vars>>
    /\ UNCHANGED <<run_inputs, dir_created, checked, elements, next_elem, fetched, node_id,
                   node_list, n_inventory, n_node_fetch, n_links, n_writes>>

\* One iteration of the loop, with the counter advanced for a node whose
\* fetch failed as well.
ProcessElement_CountsFailed ==
    /\ Step = "nodes"
    /\ next_elem <= Len(elements)
    /\ LET element == elements[next_elem] IN
       IF element = "none"
       THEN /\ fetched' = Append(fetched, "no_node")
            /\ next_elem' = next_elem + 1
            /\ UNCHANGED <<node_id, node_list, n_node_fetch>>
            /\ Stay
       ELSE /\ n_node_fetch' = n_node_fetch + 1
            /\ \E outcome \in FetchOutcomes :
                  /\ fetched' = Append(fetched, outcome)
                  /\ CASE outcome = "ok" ->
                            /\ node_list' = Append(node_list, Node(node_id, next_elem, element))
                            /\ node_id' = node_id + 1
                            /\ next_elem' = next_elem + 1
                            /\ Stay
                       [] outcome = "MyaException" ->
                            /\ next_elem' = next_elem + 1
                            /\ node_id' = node_id + 1 /\ UNCHANGED node_list
                            /\ Stay
                       [] outcome = "RuntimeError" ->
                            /\ UNCHANGED <<node_id, node_list, next_elem>>
                            /\ Stop("exit1", "node_fetch")
    /\ UNCHANGED <<sampler_vars, links_vars>>
    /\ UNCHANGED <<run_inputs, dir_created, checked, elements,
                   windows_done, n_inventory, n_global, n_links, n_writes>>

\* One iteration of `for element in elements`: make_node, and for a node
\* pv_data(), the node_id, the append and the increment. `except
\* mya.MyaException` prints the error and the loop goes on; any other exception
\* leaves the loop: the RuntimeError of Sampler.data reaches the script's
\* `except RuntimeError`, which exits with status 1.
ProcessElement ==
    /\ Step = "nodes"
    /\ next_elem <= Len(elements)
    /\ LET element == elements[next_elem] IN
       IF element = "none"
       THEN /\ fetched' = Append(fetched, "no_node")
            /\ next_elem' = next_elem + 1
            /\ UNCHANGED <<node_id, node_list, n_node_fetch>>
            /\ Stay
       ELSE /\ n_node_fetch' = n_node_fetch + 1
            /\ \E outcome \in FetchOutcomes :
                  /\ fetched' = Append(fetched, outcome)
                  /\ CASE outcome = "ok" ->
                            /\ node_list' = Append(node_list, Node(node_id, next_elem, element))
                            /\ node_id' = node_id + 1
                            /\ next_elem' = next_elem + 1
                            /\ Stay
                       [] outcome = "MyaException" ->
                            /\ next_elem' = next_elem + 1
                            /\ UNCHANGED <<node_id, node_list>>
                            /\ Stay
                       [] outcome = "RuntimeError" ->
                            /\ UNCHANGED <<node_id, node_list, next_elem>>
                            /\ Stop("exit1", "node_fetch")
    /\ UNCHANGED <<sampler_vars, links_vars>>
    /\ UNCHANGED <<run_inputs, dir_created, checked, elements,
                   windows_done, n_inventory, n_global, n_links, n_writes>>

\* The loop has gone through the inventory.
LoopEnd ==
    /\ Step = "nodes"
    /\ next_elem > Len(elements)
    /\ Advance
    /\ UNCHANGED <<sampler_vars, links_vars>>
    /\ UNCHANGED <<run_inputs, dir_created, checked, elements, next_elem, fetched, node_id,
                   node_list, windows_done, n_inventory, n_global, n_node_fetch,
                   n_links, n_writes>>

\* node.List.populate_links(node_list)
PopulateLinks ==
    /\ Step = "populate_links"
    /\ node_list' = populate_links(node_list)
    /\ n_links' = n_links + 1
    /\ Advance
    /\ UNCHANGED <<sampler_vars, links_vars>>
    /\ UNCHANGED <<run_inputs, dir_created, checked, elements, next_elem, fetched, node_id,
                   windows_done, n_inventory, n_global, n_node_fetch, n_writes>>

\* node.List.write_data_sets(global_data, node_list, config, output_dir)
WriteDataSets ==
    /\ Step = "write_data_sets"
    /\ n_writes' = n_writes + 1
    /\ Advance
    /\ UNCHANGED <<sampler_vars, links_vars>>
    /\ UNCHANGED <<run_inputs, dir_created, checked, elements, next_elem, fetched, node_id,
                   node_list, windows_done, n_inventory, n_global, n_node_fetch, n_links>>

\* if len(node_list) < 1: raise RuntimeError("Empty node list. ..."), which
\* `except RuntimeError` turns into exit(1).
EmptyCheck ==
    /\ Step = "empty_check"
    /\ IF Len(node_list) < 1 THEN Stop("exit1", "empty") ELSE Advance
    /\ UNCHANGED <<sampler_vars, links_vars>>
    /\ UNCHANGED <<run_inputs, dir_created, checked, elements, next_elem, fetched, node_id,
                   node_list, windows_done, n_inventory, n_global, n_node_fetch,
                   n_links, n_writes>>

\* The rest of the script (the graph loader, the copy of the config file, the
\* optional json dump) and exit(0).
Finish ==
    /\ Step = "finish"
    /\ Stop("exit0", "none")
    /\ UNCHANGED <<sampler_vars, links_vars>>
    /\ UNCHANGED <<run_inputs, dir_created, checked, elements, next_elem, fetched, node_id,
                   node_list, windows_done, n_inventory, n_global, n_node_fetch,
                   n_links, n_writes>>

\* --------------------------------------------------------- specifications

SamplerUnused ==
    /\ s_begin = [day |-> 10, slot |-> 0, fmt |-> "full"]
    /\ s_end = [day |-> 10, slot |-> 0, fmt |-> "full"]
    /\ s_interval = <<1, "h">>
    /\ SamplerIdle

\* One run of an entry script.
Init == RunInit /\ SamplerUnused /\ LinksIdle

Next ==
    \/ MakeOutputDir
    \/ CheckWritable
    \/ ReadJson
    \/ InventoryFetch
    \/ GlobalFetch
    \/ ProcessElement
    \/ LoopEnd
    \/ PopulateLinks
    \/ EmptyCheck
    \/ WriteDataSets
    \/ Finish

Spec == Init /\ [][Next]_vars

\* The Sampler class on its own, for every pair of date strings and interval.
InitSampler == SamplerArgs /\ SamplerIdle /\ LinksIdle /\ RunIdle

NextSampler ==
    \/ Construct
    \/ QueryParams
    \/ StepsForward
    \/ StepsBackward

SpecSampler == InitSampler /\ [][NextSampler]_vars

\* The Sampler's data on its own: a Sampler made with each channel list,
\* then calls of set_data() and data() in any order.
InitData ==
    /\ s_begin \in RunDates
    /\ s_end \in RunDates
    /\ s_interval = <<1, "h">>
    /\ sampler = NoSampler
    /\ s_raised = FALSE
    /\ s_params = NoParams
    /\ s_fwd = -1
    /\ s_rev = -1
    /\ s_pv_list \in PvLists
    /\ DataIdle
    /\ LinksIdle
    /\ RunIdle

NextData ==
    \/ Construct
    \/ SetData
    \/ Data

SpecData == InitData /\ [][NextData]_vars

\* populate_links on its own, for every list of roles.
InitLinks ==
    /\ l_nodes \in { FreshList(roles) : roles \in SeqsOf(Roles, 0, MaxNodes) }
    /\ l_runs = 0
    /\ SamplerUnused
    /\ RunIdle

NextLinks == LinkCall

SpecLinks == InitLinks /\ [][NextLinks]_vars

\* ------------------------------------------------------------------ claims

\* The inventory positions of the elements that matched a type rule and
\* whose samples were fetched.
Accepted ==
    { i \in 1..Len(fetched) : elements[i] # "none" /\ fetched[i] = "ok" }

\* The node-construction loop has run to its end.
LoopDone == ~read_json /\ StepIndex("nodes") > 0 /\ pc > StepIndex("nodes")

\* C1: after the node-construction loop, whatever elements matched no type
\* rule or failed their fetch, the nodes of node_list carry the node_ids
\* 0, 1, ..., n-1 in list order, n being the number of elements that matched a
\* rule and fetched their samples, and the nodes are those elements in
\* inventory order.
C1_NodeIdsContiguous ==
    LoopDone =>
        /\ Len(node_list) = Cardinality(Accepted)
        /\ \A k \in 1..Len(node_list) :
              /\ node_list[k].node_id = k - 1
              /\ node_list[k].elem \in Accepted
              /\ Cardinality({ j \in Accepted : j <= node_list[k].elem }) = k

\* C1's case: an element without a rule and one whose fetch raised
\* MyaException, each followed by an element that became a node.
C1_Witness ==
    /\ LoopDone
    /\ Len(node_list) >= 2
    /\ \E i, j \in 1..Len(elements) :
          /\ elements[i] = "none"
          /\ fetched[j] = "MyaException"
          /\ node_list[Len(node_list)].elem > i
          /\ node_list[Len(node_list)].elem > j

\* The loop has called pv_data() for element i, and it failed.
FetchFailed(i) == i <= Len(fetched) /\ fetched[i] \in {"MyaException", "RuntimeError"}

\* C2: a failed fetch for one element, whatever the time-series source
\* raised, does not abort the run; the element is in no node, and the elements
\* after it are processed (so that they get the node_ids they would have had
\* without it).
C2_FetchFailureSkipsElementOnly ==
    \A i \in 1..Len(elements) :
        FetchFailed(i) =>
            /\ cause # "node_fetch"
            /\ \A k \in 1..Len(node_list) : node_list[k].elem # i
            /\ status # "running" => next_elem > Len(elements)

\* Node construction is over: the loop, or the read of the saved node list.
Constructed ==
    IF read_json THEN pc > StepIndex("from_json") ELSE LoopDone

\* C3: a run whose node list is empty after construction aborts with a fatal
\* error before anything is written: write_data_sets is never called.
C3_EmptyListWritesNothing ==
    (Constructed /\ Len(node_list) = 0) =>
        /\ n_writes = 0
        /\ status \in {"running", "exit1"}

\* The position of the first setpoint after position i, or the end of the list.
NextSetpointOrEnd(nodes, i) ==
    LET later == { j \in (i + 1)..Len(nodes) : nodes[j].role = "setpoint" }
    IN  IF later = {} THEN Len(nodes) ELSE CHOOSE j \in later : \A k \in later : j <= k

RolesOf(nodes) == [i \in 1..Len(nodes) |-> nodes[i].role]

ExampleRoles == <<"observer", "setpoint", "observer", "observer", "setpoint", "observer">>

\* C4: after populate_links, the downstream collection of each setpoint S is
\* the run of nodes after S up to and including the next setpoint, or up to
\* the end of the list; a trailing setpoint has none; the nodes before the
\* first setpoint are in no downstream collection; and the roles
\* [obs, SP1, obs, obs, SP2, obs] give SP1 -> [obs, obs, SP2], SP2 -> [obs].
C4_DownstreamUpToNextSetpoint ==
    l_runs >= 1 =>
        /\ \A i \in 1..Len(l_nodes) :
              IF l_nodes[i].role = "setpoint"
              THEN l_nodes[i].downstream =
                       [k \in 1..(NextSetpointOrEnd(l_nodes, i) - i) |-> i + k]
              ELSE l_nodes[i].downstream = <<>>
        /\ \A p \in 1..Len(l_nodes) :
              (\A q \in 1..p : l_nodes[q].role # "setpoint") =>
                  \A i \in 1..Len(l_nodes) :
                      \A k \in 1..Len(l_nodes[i].downstream) : l_nodes[i].downstream[k] # p
        /\ RolesOf(l_nodes) = ExampleRoles =>
              /\ l_nodes[2].downstream = <<3, 4, 5>>
              /\ l_nodes[5].downstream = <<6>>

\* C4's case: the example list, linked.
C4_Witness ==
    /\ l_runs >= 1
    /\ RolesOf(l_nodes) = ExampleRoles
    /\ l_nodes[2].downstream = <<3, 4, 5>>

\* C5: a second populate_links, as both scripts run it on the fetch path,
\* leaves every node's downstream collection as the first one left it.
C5_PopulateLinksIdempotent ==
    [][(Step = "populate_links" /\ n_links >= 1) => node_list' = node_list]_vars

\* C5's case: populate_links has run twice on a list with an edge.
C5_Witness ==
    /\ n_links = 2
    /\ ~read_json
    /\ \E i \in 1..Len(node_list) : Len(node_list[i].downstream) >= 2

\* The time between the two dates, in minutes
Elapsed == Abs(Localize(to_datetime(Str(s_end))) - Localize(to_datetime(Str(s_begin))))

ExampleBegin == [day |-> 10, slot |-> 0, fmt |-> "full"]
ExampleEnd == [day |-> 10, slot |-> 4, fmt |-> "full"]

\* C6: steps_between(begin, end, interval) is floor(|end - begin| / interval),
\* is the same with begin and end swapped, and is 2 for
\* 2021-11-10 00:00:00, 2021-11-10 02:00:00 and '1h'.
C6_StepsBetweenFloorSymmetric ==
    /\ s_fwd # -1 =>
          /\ s_fwd * to_timedelta(s_interval) <= Elapsed
          /\ Elapsed < (s_fwd + 1) * to_timedelta(s_interval)
    /\ s_rev # -1 =>
          /\ s_rev * to_timedelta(s_interval) <= Elapsed
          /\ Elapsed < (s_rev + 1) * to_timedelta(s_interval)
    /\ (s_fwd # -1 /\ s_rev # -1) => s_fwd = s_rev
    /\ (s_fwd # -1 /\ s_begin = ExampleBegin /\ s_end = ExampleEnd /\ s_interval = <<1, "h">>)
          => s_fwd = 2

\* C6's case: the example, asked both ways round.
C6_Witness ==
    /\ s_begin = ExampleBegin /\ s_end = ExampleEnd /\ s_interval = <<1, "h">>
    /\ s_fwd = 2
    /\ s_rev = 2

\* The run has performed (or stopped in) its global fetch.
GlobalTried ==
    /\ ~read_json
    /\ \/ pc > StepIndex("global")
       \/ pc = StepIndex("global") /\ ~Running

C8_ConstructedBeginBeforeEnd ==
    /\ sampler.constructed => sampler.begin_date < sampler.end_date
    /\ s_raised => ~(to_datetime(Str(s_begin)) < to_datetime(Str(s_end)))

\* begin is before end, and less than one interval before it.
ZeroStepWindow ==
    /\ to_datetime(Str(s_begin)) < to_datetime(Str(s_end))
    /\ Elapsed < to_timedelta(s_interval)

\* C9: for a zero-step window the query asks for one sample, not none.
C9_ZeroStepWindowAsksOneSample ==
    (ZeroStepWindow /\ sampler.constructed /\ s_params # NoParams) => s_params.n = 1

Fetches == n_inventory + n_global + n_node_fetch

\* C10: the writability test of the output directory comes before the
\* inventory fetch, the global fetch and every per-node fetch, and a run whose
\* test fails ends there, with no fetch issued.
C10_WritableCheckedBeforeFetch ==
    /\ Fetches > 0 => (checked /\ writable)
    /\ (checked /\ ~writable) =>
          /\ status = "exit1"
          /\ cause = "unwritable"
          /\ Fetches = 0
          /\ n_writes = 0

\* C10's case: the test failed and the run ended.
C10_Witness ==
    /\ checked
    /\ ~writable
    /\ status = "exit1"
    /\ Fetches = 0

\* C11: the pipeline runs in the order fetch, construct, link, assemble.
\* A step that performs write_data_sets is taken only when node construction
\* is over, linking has been performed and nothing has been written yet (so
\* assembly happens at most once in a run), and once write_data_sets has been
\* performed no later step performs populate_links.
C11_StrictPipelineOrder ==
    [][ /\ n_writes' > n_writes => (Constructed /\ n_links >= 1 /\ n_writes = 0)
        /\ n_writes >= 1 => n_links' = n_links ]_vars

\* C12: once set_data(val) has stored a list, a call of data() returns that
\* list, raises nothing and issues no request to the archiver, whatever the
\* channel list is; and set_data() with a value that is not a list raises
\* TypeError and leaves self._data as it was.
C12_SetDataShortCircuitsFetch ==
    [][ s_calls' > s_calls =>
          /\ (s_out'.op = "data" /\ s_set.is_set) =>
                /\ s_out'.raised = "none"
                /\ s_out'.ret = s_set.val
                /\ s_http' = s_http
          /\ (s_out'.op = "set_data" /\ s_out'.arg # "list") =>
                /\ s_out'.raised = "TypeError"
                /\ s_data' = s_data ]_vars

====
